---- MODULE Spec2Model ----
(***************************************************************************)
(* Model of the EvalOps dashboards (dashboards/evalops_dashboard.py and    *)
(* dashboards/pages/workspace_details.py): the aggregate queries over the  *)
(* eval_runs table, the ttl memoisation wrapped around them, and the two   *)
(* page scripts that call them and render the results.                     *)
(*                                                                         *)
(* Dates are day ordinals (day 0 = 2023-01-01), timestamps are seconds     *)
(* since 2023-01-01 00:00:00, a nullable duration is a set with at most    *)
(* one element ({} is SQL NULL), a value rounded to 2 decimals is kept as  *)
(* an integer number of hundredths.                                        *)
(***************************************************************************)
EXTENDS Integers, Sequences, FiniteSets, TLC

VARIABLES
    records,            \* rows of the warehouse table eval_runs
    now,                \* wall clock, seconds since 2023-01-01 00:00:00
    page,               \* which page script is running: "main" or "workspace"
    pc,                 \* position of the page script
    date_range,         \* the selectbox value of the main page
    start_date,         \* get_date_range result
    end_date,
    eval_runs,          \* locals of the main page script
    active_workspaces,
    avg_duration,
    utilization,
    monthly_data,
    workspace_data,     \* local of the workspace page script
    shown,              \* widgets rendered by the current page load
    errors,             \* number of st.error calls of the current page load
    attempts,           \* queries sent to the warehouse by the current page load
    cache,              \* st.cache_data store: key -> [value, stored]
    sessions,           \* st.cache_resource store: pages whose session exists
    lastCall,           \* the latest memoised call of the page load and where its result came from
    failures,           \* warehouse operations that raised in the current page load
    loads               \* page loads started so far

vars == <<records, now, page, pc, date_range, start_date, end_date, eval_runs,
          active_workspaces, avg_duration, utilization, monthly_data,
          workspace_data, shown, errors, attempts, cache, sessions, lastCall,
          failures, loads>>

----------------------------------------------------------------------------
(* Calendar arithmetic: datetime.date, DATEADD, DATE(), TO_CHAR.           *)

Years == 2023..2025

IsLeap(y) == (y % 4 = 0 /\ y % 100 # 0) \/ y % 400 = 0

DaysInMonth(y, m) ==
    IF m = 2 THEN (IF IsLeap(y) THEN 29 ELSE 28)
    ELSE IF m \in {4, 6, 9, 11} THEN 30 ELSE 31

DaysInYear(y) == IF IsLeap(y) THEN 366 ELSE 365

RECURSIVE DaysBeforeYear(_)
DaysBeforeYear(y) == IF y = 2023 THEN 0 ELSE DaysBeforeYear(y - 1) + DaysInYear(y - 1)

RECURSIVE DaysBeforeMonth(_, _)
DaysBeforeMonth(y, m) == IF m = 1 THEN 0 ELSE DaysBeforeMonth(y, m - 1) + DaysInMonth(y, m - 1)

\* the day ordinal of the calendar date y-m-d
Date(y, m, d) == DaysBeforeYear(y) + DaysBeforeMonth(y, m) + (d - 1)

MaxOrdinal == Date(2025, 12, 31)

\* the calendar date of a day ordinal, as [y, m, d]
YMD[n \in 0..MaxOrdinal] ==
    LET y == CHOOSE yy \in Years : DaysBeforeYear(yy) <= n /\ n < DaysBeforeYear(yy) + DaysInYear(yy)
        r == n - DaysBeforeYear(y)
        m == CHOOSE mm \in 1..12 : DaysBeforeMonth(y, mm) <= r /\ r < DaysBeforeMonth(y, mm) + DaysInMonth(y, mm)
    IN  [y |-> y, m |-> m, d |-> r - DaysBeforeMonth(y, m) + 1]

\* a date literal '{start_date}' compared with a TIMESTAMP column: midnight of that day
DateToTimestamp(d) == d * 86400

\* DATE(created_at)
DateOf(ts) == ts \div 86400

\* Timestamp(y, m, d, h): the timestamp y-m-d h:00:00
Timestamp(y, m, d, h) == DateToTimestamp(Date(y, m, d)) + h * 3600

\* TO_CHAR(created_at, 'YYYY-MM'): the string 'YYYY-MM' is kept as the number
\* YYYYMM, whose order is the order of the strings (four-digit years)
ToCharYYYYMM(ts) == YMD[DateOf(ts)].y * 100 + YMD[DateOf(ts)].m

\* DATEADD(month, k, d): the same day of the month k months away, clamped to
\* the last day of that month
DateAddMonth(k, d) ==
    LET c == YMD[d]
        t == c.y * 12 + (c.m - 1) + k
        y == t \div 12
        m == (t % 12) + 1
        dd == IF c.d > DaysInMonth(y, m) THEN DaysInMonth(y, m) ELSE c.d
    IN  Date(y, m, dd)

\* datetime.date.today() and CURRENT_DATE()
Today == DateOf(now)


----------------------------------------------------------------------------
(* Bounds of the model.                                                    *)

\* rows of a table drawn for the queries
MaxRows == 2

\* page loads in a run
MaxLoads == 2

\* clock steps in a run, and the seconds in a step
MaxTicks == 3

TickStep == 150

\* the clock starts one step before midnight of 2024-07-15
StartTime == Timestamp(2024, 7, 16, 0) - TickStep

----------------------------------------------------------------------------
(* The table eval_runs and the SQL of the aggregate queries.               *)

Workspaces == {"W1", "W2"}

\* duration_seconds: {} is NULL
Durations == {{}, {120}, {180}}

CreatedAts ==
    { Timestamp(2024, 1, 10, 10),    \* more than six months back
      Timestamp(2024, 1, 20, 0),
      Timestamp(2024, 4, 20, 10),
      Timestamp(2024, 6, 20, 10),
      Timestamp(2024, 7, 15, 10),    \* during the current day
      Timestamp(2024, 7, 16, 2) }    \* stamped after the current day

Rows == [workspace_id : Workspaces, created_at : CreatedAts, duration_seconds : Durations]

Row(w, ts, dur) == [workspace_id |-> w, created_at |-> ts, duration_seconds |-> dur]

\* created_at BETWEEN '{start_date}' AND '{end_date}'
WhereBetween(tbl, start, end) ==
    { r \in tbl : DateToTimestamp(start) <= r.created_at /\ r.created_at <= DateToTimestamp(end) }

\* created_at >= DATEADD(month, -k, CURRENT_DATE())
WhereSince(tbl, k, today) ==
    { r \in tbl : r.created_at >= DateToTimestamp(DateAddMonth(0 - k, today)) }

\* COUNT(*)
CountStar(rows) == Cardinality(rows)

\* COUNT(DISTINCT workspace_id)
CountDistinctWorkspace(rows) == Cardinality({ r.workspace_id : r \in rows })

RECURSIVE SumDuration(_)
SumDuration(rows) ==
    IF rows = {} THEN 0
    ELSE LET r == CHOOSE x \in rows : TRUE
         IN  (IF r.duration_seconds = {} THEN 0 ELSE CHOOSE d \in r.duration_seconds : TRUE)
             + SumDuration(rows \ {r})

\* AVG(duration_seconds)/60 as the fraction <<numerator, denominator>>; NULL
\* ({}) when no row has a duration, as SQL's AVG skips NULLs
AvgDurationMinutes(rows) ==
    LET nonnull == { r \in rows : r.duration_seconds # {} }
    IN  IF nonnull = {} THEN {}
        ELSE {<<SumDuration(nonnull), 60 * Cardinality(nonnull)>>}

\* Python's round(x, 2) of the fraction x = q[1]/q[2] >= 0, in hundredths:
\* to the nearest hundredth, a tie to the even one
Round2(q) ==
    LET n == 100 * q[1]
        f == n \div q[2]
        r == n % q[2]
    IN  IF 2 * r > q[2] THEN f + 1
        ELSE IF 2 * r < q[2] THEN f
        ELSE IF f % 2 = 0 THEN f ELSE f + 1

\* the body of get_eval_runs
get_eval_runs(tbl, start, end) == CountStar(WhereBetween(tbl, start, end))

\* get_active_workspaces with the WHERE clause lost
get_active_workspaces_unfiltered(tbl, start, end) == CountDistinctWorkspace(tbl)

\* the body of get_active_workspaces
get_active_workspaces(tbl, start, end) == CountDistinctWorkspace(WhereBetween(tbl, start, end))

\* get_avg_duration with a NULL duration averaged in as 0
get_avg_duration_nulls_as_zero(tbl, start, end) ==
    LET rows == WhereBetween(tbl, start, end)
    IN  IF rows = {} THEN 0 ELSE Round2(<<SumDuration(rows), 60 * Cardinality(rows)>>)

\* the body of get_avg_duration: round(result or 0, 2), in hundredths of a minute
get_avg_duration(tbl, start, end) ==
    LET result == AvgDurationMinutes(WhereBetween(tbl, start, end))
    IN  IF result = {} THEN 0 ELSE Round2(CHOOSE q \in result : TRUE)

RECURSIVE Ascending(_)
Ascending(S) ==
    IF S = {} THEN <<>>
    ELSE LET m == CHOOSE x \in S : \A y \in S : x <= y
         IN  <<m>> \o Ascending(S \ {m})

MonthRow(rows, month) ==
    LET g == { r \in rows : ToCharYYYYMM(r.created_at) = month }
    IN  [MONTH |-> month,
         EVAL_RUNS |-> CountStar(g),
         ACTIVE_WORKSPACES |-> CountDistinctWorkspace(g),
         AVG_DURATION_MINUTES |-> AvgDurationMinutes(g)]

\* the body of get_monthly_trends: GROUP BY 1 ORDER BY 1
get_monthly_trends(tbl, today) ==
    LET rows == WhereSince(tbl, 6, today)
        months == Ascending({ ToCharYYYYMM(r.created_at) : r \in rows })
    IN  [i \in 1..Len(months) |-> MonthRow(rows, months[i])]

Min(S) == CHOOSE x \in S : \A y \in S : x <= y

Max(S) == CHOOSE x \in S : \A y \in S : x >= y

WorkspaceRow(rows, w) ==
    LET g == { r \in rows : r.workspace_id = w }
    IN  [WORKSPACE_ID |-> w,
         TOTAL_RUNS |-> CountStar(g),
         AVG_DURATION_MINUTES |-> AvgDurationMinutes(g),
         FIRST_RUN |-> Min({ r.created_at : r \in g }),
         LAST_RUN |-> Max({ r.created_at : r \in g }),
         ACTIVE_DAYS |-> Cardinality({ DateOf(r.created_at) : r \in g })]

\* ORDER BY total_runs, ascending
OrderedByTotalRunsAsc(s) == \A i \in 1..(Len(s) - 1) : s[i].TOTAL_RUNS <= s[i + 1].TOTAL_RUNS

\* ORDER BY total_runs DESC
OrderedByTotalRunsDesc(s) == \A i \in 1..(Len(s) - 1) : s[i].TOTAL_RUNS >= s[i + 1].TOTAL_RUNS

\* the body of get_workspace_metrics: GROUP BY workspace_id ORDER BY total_runs
\* DESC. SQL leaves the order of rows with equal total_runs open, so this is
\* the set of results the warehouse may return.
get_workspace_metrics(tbl, today) ==
    LET rows == WhereSince(tbl, 3, today)
        ids == { r.workspace_id : r \in rows }
        n == Cardinality(ids)
        orders == { f \in [1..n -> ids] : \A i, j \in 1..n : i # j => f[i] # f[j] }
    IN  { s \in { [i \in 1..n |-> WorkspaceRow(rows, f[i])] : f \in orders } :
            OrderedByTotalRunsDesc(s) }


----------------------------------------------------------------------------
(* st.cache_data(ttl=300): one store per decorated function, keyed by the  *)
(* call's arguments; an entry is served while it is younger than the ttl.  *)

TTL == 300

Functions == {"get_eval_runs", "get_active_workspaces", "get_avg_duration",
              "get_monthly_trends", "get_workspace_metrics"}

\* a key that leaves the arguments out
CacheKeyWithoutArgs(fn, args) == <<fn, <<>>>>

\* the key an entry is stored under: the function and its arguments
CacheKey(fn, args) == <<fn, args>>

\* an entry is served while now - stored < ttl
Expired(entry) == now - entry.stored >= TTL

CacheHit(fn, args) ==
    /\ CacheKey(fn, args) \in DOMAIN cache
    /\ ~Expired(cache[CacheKey(fn, args)])

\* storing a result drops the function's expired entries and adds the new one;
\* the entry remembers the call that produced it
CachePut(fn, args, value) ==
    LET key == CacheKey(fn, args)
        kept == { k \in DOMAIN cache : k[1] # fn \/ ~Expired(cache[k]) } \cup {key}
        entry == [value |-> {value}, stored |-> now, fn |-> fn, args |-> args]
    IN  [k \in kept |-> IF k = key THEN entry ELSE cache[k]]

\* The outcomes of calling a memoised function: the stored entry's value on a
\* hit; otherwise the query is sent to the warehouse, and either raises or
\* returns one of `results`, which is stored. A value is carried as {v}, and
\* an exception as {}.
Memoized(fn, args, results) ==
    IF CacheHit(fn, args)
    THEN { [sent |-> FALSE, store |-> cache,
            value |-> cache[CacheKey(fn, args)].value,
            from |-> cache[CacheKey(fn, args)]] }
    ELSE { [sent |-> TRUE, store |-> CachePut(fn, args, v),
            value |-> {v},
            from |-> [value |-> {v}, stored |-> now, fn |-> fn, args |-> args]] : v \in results }
         \cup
         { [sent |-> TRUE, store |-> cache, value |-> {},
            from |-> [value |-> {}, stored |-> now, fn |-> fn, args |-> args]] }

Raised(o) == o.value = {}

ValueOf(o) == CHOOSE v \in o.value : TRUE

NoCall == [fn |-> "none", args |-> <<>>, at |-> 0, fresh |-> TRUE, raised |-> FALSE,
           from |-> [value |-> {}, stored |-> 0, fn |-> "none", args |-> <<>>]]

\* the bookkeeping every memoised call shares
Called(fn, args, o) ==
    /\ cache' = o.store
    /\ attempts' = IF o.sent THEN [attempts EXCEPT ![fn] = @ + 1] ELSE attempts
    /\ failures' = IF Raised(o) THEN failures + 1 ELSE failures
    /\ lastCall' = [fn |-> fn, args |-> args, at |-> now, fresh |-> o.sent,
                    raised |-> Raised(o), from |-> o.from]


----------------------------------------------------------------------------
(* The page scripts.                                                       *)

Periods == {"Last 30 days", "Last 3 months", "Last 6 months"}

months_map(p) ==
    IF p = "Last 30 days" THEN 1 ELSE IF p = "Last 3 months" THEN 3 ELSE 6

\* get_date_range(months_back): <<start_date, end_date>>
get_date_range(months_back) == <<Today - 30 * months_back, Today>>

\* the utilization without its guard: dividing by zero raises
UtilizationUnguarded(runs, active) ==
    IF active * 30 = 0 THEN {} ELSE {<<runs, active * 30>>}

\* (eval_runs / (active_workspaces * 30)) if active_workspaces > 0 else 0,
\* as the fraction <<numerator, denominator>>; {} is ZeroDivisionError
Utilization(runs, active) ==
    IF active > 0 THEN {<<runs, active * 30>>} ELSE {<<0, 1>>}

\* not df.empty
NotEmpty(df) == Len(df) > 0

\* df.iloc[0]; {} is IndexError
Iloc0(df) == IF Len(df) = 0 THEN {} ELSE {df[1]}

MetricTiles == {"metric_runs", "metric_workspaces", "metric_duration", "metric_utilization"}

TrendWidgets == {"chart_runs", "chart_workspaces", "chart_duration", "table_monthly"}

WorkspaceWidgets == {"chart_top", "hist_duration", "hist_active_days", "table_workspaces",
                     "summary_metrics"}

NoAttempts == [f \in Functions |-> 0]

\* the locals a page script starts without
FreshLocals ==
    /\ date_range' = "Last 30 days"
    /\ start_date' = 0
    /\ end_date' = 0
    /\ eval_runs' = 0
    /\ active_workspaces' = 0
    /\ avg_duration' = 0
    /\ utilization' = <<0, 1>>
    /\ monthly_data' = <<>>
    /\ workspace_data' = <<>>

\* Streamlit runs a page script from its first line: set_page_config, title
LoadPage(p) ==
    /\ pc \in {"idle", "done", "crashed"}
    /\ loads < MaxLoads
    /\ loads' = loads + 1
    /\ page' = p
    /\ pc' = "session"
    /\ FreshLocals
    /\ shown' = {"title"}
    /\ errors' = 0
    /\ failures' = 0
    /\ attempts' = NoAttempts
    /\ lastCall' = NoCall
    /\ UNCHANGED <<records, now, cache, sessions>>

\* session = get_snowflake_session(), a module-level statement outside any
\* try: st.cache_resource returns the page's session when it has one, else
\* Session.builder...create() runs and may raise, which ends the script
GetSession(p, next) ==
    /\ page = p
    /\ pc = "session"
    /\ \E ok \in BOOLEAN :
         IF p \in sessions
         THEN /\ pc' = next
              /\ UNCHANGED <<sessions, failures>>
         ELSE IF ok
         THEN /\ sessions' = sessions \cup {p}
              /\ pc' = next
              /\ UNCHANGED failures
         ELSE /\ pc' = "crashed"
              /\ failures' = failures + 1
              /\ UNCHANGED sessions
    /\ UNCHANGED <<records, now, page, date_range, start_date, end_date, eval_runs,
                   active_workspaces, avg_duration, utilization, monthly_data,
                   workspace_data, shown, errors, attempts, cache, lastCall, loads>>

GetSessionMain == GetSession("main", "select")

GetSessionWorkspace == GetSession("workspace", "get_workspace_metrics")

\* the selectbox and get_date_range(months_map[date_range])
SelectPeriod ==
    /\ page = "main"
    /\ pc = "select"
    /\ \E p \in Periods :
         /\ date_range' = p
         /\ start_date' = get_date_range(months_map(p))[1]
         /\ end_date' = get_date_range(months_map(p))[2]
    /\ pc' = "get_eval_runs"
    /\ UNCHANGED <<records, now, page, eval_runs, active_workspaces, avg_duration,
                   utilization, monthly_data, workspace_data, shown, errors, attempts,
                   cache, sessions, lastCall, failures, loads>>

\* eval_runs = get_eval_runs(start_date, end_date)
CallEvalRuns ==
    /\ page = "main"
    /\ pc = "get_eval_runs"
    /\ \E o \in Memoized("get_eval_runs", <<start_date, end_date>>,
                         {get_eval_runs(records, start_date, end_date)}) :
         /\ Called("get_eval_runs", <<start_date, end_date>>, o)
         /\ IF Raised(o)
            THEN pc' = "except" /\ UNCHANGED eval_runs
            ELSE pc' = "get_active_workspaces" /\ eval_runs' = ValueOf(o)
    /\ UNCHANGED <<records, now, page, date_range, start_date, end_date,
                   active_workspaces, avg_duration, utilization, monthly_data,
                   workspace_data, shown, errors, sessions, loads>>

\* active_workspaces = get_active_workspaces(start_date, end_date)
CallActiveWorkspaces ==
    /\ page = "main"
    /\ pc = "get_active_workspaces"
    /\ \E o \in Memoized("get_active_workspaces", <<start_date, end_date>>,
                         {get_active_workspaces(records, start_date, end_date)}) :
         /\ Called("get_active_workspaces", <<start_date, end_date>>, o)
         /\ IF Raised(o)
            THEN pc' = "except" /\ UNCHANGED active_workspaces
            ELSE pc' = "get_avg_duration" /\ active_workspaces' = ValueOf(o)
    /\ UNCHANGED <<records, now, page, date_range, start_date, end_date, eval_runs,
                   avg_duration, utilization, monthly_data, workspace_data, shown,
                   errors, sessions, loads>>

\* avg_duration = get_avg_duration(start_date, end_date)
CallAvgDuration ==
    /\ page = "main"
    /\ pc = "get_avg_duration"
    /\ \E o \in Memoized("get_avg_duration", <<start_date, end_date>>,
                         {get_avg_duration(records, start_date, end_date)}) :
         /\ Called("get_avg_duration", <<start_date, end_date>>, o)
         /\ IF Raised(o)
            THEN pc' = "except" /\ UNCHANGED avg_duration
            ELSE pc' = "metrics" /\ avg_duration' = ValueOf(o)
    /\ UNCHANGED <<records, now, page, date_range, start_date, end_date, eval_runs,
                   active_workspaces, utilization, monthly_data, workspace_data, shown,
                   errors, sessions, loads>>

\* the four st.metric tiles; the fourth computes utilization
RenderMetrics ==
    /\ page = "main"
    /\ pc = "metrics"
    /\ LET u == Utilization(eval_runs, active_workspaces)
       IN  IF u = {}
           THEN /\ pc' = "except"
                /\ shown' = shown \cup (MetricTiles \ {"metric_utilization"})
                /\ UNCHANGED utilization
           ELSE /\ pc' = "get_monthly_trends"
                /\ shown' = shown \cup MetricTiles
                /\ utilization' = CHOOSE x \in u : TRUE
    /\ UNCHANGED <<records, now, page, date_range, start_date, end_date, eval_runs,
                   active_workspaces, avg_duration, monthly_data, workspace_data,
                   errors, attempts, cache, sessions, lastCall, failures, loads>>

\* monthly_data = get_monthly_trends()
CallMonthlyTrends ==
    /\ page = "main"
    /\ pc = "get_monthly_trends"
    /\ \E o \in Memoized("get_monthly_trends", <<>>, {get_monthly_trends(records, Today)}) :
         /\ Called("get_monthly_trends", <<>>, o)
         /\ IF Raised(o)
            THEN pc' = "except" /\ UNCHANGED monthly_data
            ELSE pc' = "trends" /\ monthly_data' = ValueOf(o)
    /\ UNCHANGED <<records, now, page, date_range, start_date, end_date, eval_runs,
                   active_workspaces, avg_duration, utilization, workspace_data, shown,
                   errors, sessions, loads>>

\* if not monthly_data.empty: the three charts and the table
RenderTrends ==
    /\ page = "main"
    /\ pc = "trends"
    /\ shown' = IF NotEmpty(monthly_data) THEN shown \cup TrendWidgets ELSE shown
    /\ pc' = "footer"
    /\ UNCHANGED <<records, now, page, date_range, start_date, end_date, eval_runs,
                   active_workspaces, avg_duration, utilization, monthly_data,
                   workspace_data, errors, attempts, cache, sessions, lastCall,
                   failures, loads>>

\* except Exception as e: st.error(...); st.info(...)
ExceptMain ==
    /\ page = "main"
    /\ pc = "except"
    /\ errors' = errors + 1
    /\ shown' = shown \cup {"error", "info"}
    /\ pc' = "footer"
    /\ UNCHANGED <<records, now, page, date_range, start_date, end_date, eval_runs,
                   active_workspaces, avg_duration, utilization, monthly_data,
                   workspace_data, attempts, cache, sessions, lastCall, failures, loads>>

\* st.markdown("---"); st.caption(...)
Footer ==
    /\ page = "main"
    /\ pc = "footer"
    /\ shown' = shown \cup {"footer"}
    /\ pc' = "done"
    /\ UNCHANGED <<records, now, page, date_range, start_date, end_date, eval_runs,
                   active_workspaces, avg_duration, utilization, monthly_data,
                   workspace_data, errors, attempts, cache, sessions, lastCall,
                   failures, loads>>

\* workspace_data = get_workspace_metrics()
CallWorkspaceMetrics ==
    /\ page = "workspace"
    /\ pc = "get_workspace_metrics"
    /\ \E o \in Memoized("get_workspace_metrics", <<>>, get_workspace_metrics(records, Today)) :
         /\ Called("get_workspace_metrics", <<>>, o)
         /\ IF Raised(o)
            THEN pc' = "except" /\ UNCHANGED workspace_data
            ELSE pc' = "workspace" /\ workspace_data' = ValueOf(o)
    /\ UNCHANGED <<records, now, page, date_range, start_date, end_date, eval_runs,
                   active_workspaces, avg_duration, utilization, monthly_data, shown,
                   errors, sessions, loads>>

\* if not workspace_data.empty: charts, table and the summary tiles, one of
\* which reads workspace_data.iloc[0]
RenderWorkspace ==
    /\ page = "workspace"
    /\ pc = "workspace"
    /\ IF NotEmpty(workspace_data)
       THEN IF Iloc0(workspace_data) = {}
            THEN /\ pc' = "except"
                 /\ shown' = shown \cup (WorkspaceWidgets \ {"summary_metrics"})
            ELSE /\ pc' = "done"
                 /\ shown' = shown \cup WorkspaceWidgets
       ELSE /\ pc' = "done"
            /\ UNCHANGED shown
    /\ UNCHANGED <<records, now, page, date_range, start_date, end_date, eval_runs,
                   active_workspaces, avg_duration, utilization, monthly_data,
                   workspace_data, errors, attempts, cache, sessions, lastCall,
                   failures, loads>>

\* except Exception as e: st.error(...); st.info(...)
ExceptWorkspace ==
    /\ page = "workspace"
    /\ pc = "except"
    /\ errors' = errors + 1
    /\ shown' = shown \cup {"error", "info"}
    /\ pc' = "done"
    /\ UNCHANGED <<records, now, page, date_range, start_date, end_date, eval_runs,
                   active_workspaces, avg_duration, utilization, monthly_data,
                   workspace_data, attempts, cache, sessions, lastCall, failures, loads>>

\* time passes between page loads
Tick ==
    /\ pc \in {"idle", "done", "crashed"}
    /\ now + TickStep <= StartTime + MaxTicks * TickStep
    /\ now' = now + TickStep
    /\ UNCHANGED <<records, page, pc, date_range, start_date, end_date, eval_runs,
                   active_workspaces, avg_duration, utilization, monthly_data,
                   workspace_data, shown, errors, attempts, cache, sessions, lastCall,
                   failures, loads>>


----------------------------------------------------------------------------
(* The dashboard: page loads over a table the warehouse already holds.     *)

EmptyTable == {}

\* 1, 2 and 3 runs in the 30, 90 and 180 day windows of 2024-07-15, and a run
\* during that day
DemoTable ==
    { Row("W1", Timestamp(2024, 1, 20, 0), {120}),
      Row("W1", Timestamp(2024, 4, 20, 10), {180}),
      Row("W2", Timestamp(2024, 6, 20, 10), {}),
      Row("W2", Timestamp(2024, 7, 15, 10), {120}) }

\* two workspaces with as many runs each
TieTable ==
    { Row("W1", Timestamp(2024, 6, 20, 10), {120}),
      Row("W2", Timestamp(2024, 6, 20, 10), {180}) }

PageTables == {EmptyTable, DemoTable, TieTable}

InitCommon ==
    /\ now = StartTime
    /\ page = "main"
    /\ date_range = "Last 30 days"
    /\ start_date = 0
    /\ end_date = 0
    /\ eval_runs = 0
    /\ active_workspaces = 0
    /\ avg_duration = 0
    /\ utilization = <<0, 1>>
    /\ monthly_data = <<>>
    /\ workspace_data = <<>>
    /\ shown = {}
    /\ errors = 0
    /\ failures = 0
    /\ attempts = NoAttempts
    /\ cache = <<>>
    /\ sessions = {}
    /\ lastCall = NoCall
    /\ loads = 0

Init ==
    /\ records \in PageTables
    /\ pc = "idle"
    /\ InitCommon

Next ==
    \/ \E p \in {"main", "workspace"} : LoadPage(p)
    \/ GetSessionMain
    \/ GetSessionWorkspace
    \/ SelectPeriod
    \/ CallEvalRuns
    \/ CallActiveWorkspaces
    \/ CallAvgDuration
    \/ RenderMetrics
    \/ CallMonthlyTrends
    \/ RenderTrends
    \/ ExceptMain
    \/ Footer
    \/ CallWorkspaceMetrics
    \/ RenderWorkspace
    \/ ExceptWorkspace
    \/ Tick

Spec == Init /\ [][Next]_vars

----------------------------------------------------------------------------
(* The queries as functions of the table, the window and the current date: *)
(* a table of at most MaxRows rows, or one of two larger ones, is drawn,   *)
(* and each query is applied to it.                                        *)

RECURSIVE TablesUpTo(_)
TablesUpTo(k) ==
    IF k = 0 THEN {{}}
    ELSE LET prev == TablesUpTo(k - 1)
         IN  prev \cup { t \cup {r} : t \in prev, r \in Rows }

\* the three records of the documented scenario
ScenarioTable ==
    { Row("W1", Timestamp(2024, 1, 5, 0), {120}),
      Row("W1", Timestamp(2024, 1, 20, 0), {180}),
      Row("W2", Timestamp(2024, 1, 10, 0), {}) }

\* one run on the 20th of each month, January to July 2024, May's by W2
MonthlyTable ==
    { Row(IF m = 5 THEN "W2" ELSE "W1", Timestamp(2024, m, 20, 10), {120}) : m \in 1..7 }

QueryTables == TablesUpTo(MaxRows) \cup {ScenarioTable, MonthlyTable}

WindowDates == {Date(2024, 1, 1), Date(2024, 1, 31), Date(2024, 6, 20), Date(2024, 7, 15)}

QueryInit ==
    /\ records \in QueryTables
    /\ pc = "query"
    /\ InitCommon

QueryMonthlyTrends ==
    /\ pc = "query"
    /\ monthly_data' = get_monthly_trends(records, Today)
    /\ pc' = "q_trends"
    /\ UNCHANGED <<records, now, page, date_range, start_date, end_date, eval_runs,
                   active_workspaces, avg_duration, utilization, workspace_data, shown,
                   errors, attempts, cache, sessions, lastCall, failures, loads>>

QueryWorkspaceMetrics ==
    /\ pc = "q_trends"
    /\ workspace_data' \in get_workspace_metrics(records, Today)
    /\ pc' = "q_workspace"
    /\ UNCHANGED <<records, now, page, date_range, start_date, end_date, eval_runs,
                   active_workspaces, avg_duration, utilization, monthly_data, shown,
                   errors, attempts, cache, sessions, lastCall, failures, loads>>

QueryWindow ==
    /\ pc = "q_workspace"
    /\ \E s, e \in WindowDates :
         /\ s <= e
         /\ start_date' = s
         /\ end_date' = e
    /\ pc' = "q_window"
    /\ UNCHANGED <<records, now, page, date_range, eval_runs, active_workspaces,
                   avg_duration, utilization, monthly_data, workspace_data, shown,
                   errors, attempts, cache, sessions, lastCall, failures, loads>>

QueryEvalRuns ==
    /\ pc = "q_window"
    /\ eval_runs' = get_eval_runs(records, start_date, end_date)
    /\ pc' = "q_runs"
    /\ UNCHANGED <<records, now, page, date_range, start_date, end_date,
                   active_workspaces, avg_duration, utilization, monthly_data,
                   workspace_data, shown, errors, attempts, cache, sessions, lastCall,
                   failures, loads>>

QueryActiveWorkspaces ==
    /\ pc = "q_runs"
    /\ active_workspaces' = get_active_workspaces(records, start_date, end_date)
    /\ pc' = "q_active"
    /\ UNCHANGED <<records, now, page, date_range, start_date, end_date, eval_runs,
                   avg_duration, utilization, monthly_data, workspace_data, shown,
                   errors, attempts, cache, sessions, lastCall, failures, loads>>

QueryAvgDuration ==
    /\ pc = "q_active"
    /\ avg_duration' = get_avg_duration(records, start_date, end_date)
    /\ pc' = "q_done"
    /\ UNCHANGED <<records, now, page, date_range, start_date, end_date, eval_runs,
                   active_workspaces, utilization, monthly_data, workspace_data, shown,
                   errors, attempts, cache, sessions, lastCall, failures, loads>>

QueryNext ==
    \/ QueryMonthlyTrends
    \/ QueryWorkspaceMetrics
    \/ QueryWindow
    \/ QueryEvalRuns
    \/ QueryActiveWorkspaces
    \/ QueryAvgDuration

QuerySpec == QueryInit /\ [][QueryNext]_vars


----------------------------------------------------------------------------
(* Properties.                                                             *)

\* C1: a failed warehouse operation - creating the session or any of the five
\* queries - is caught by the page: the script never ends on an exception,
\* and a load in which an operation failed ends with exactly one error
\* display and, on the main page, with the footer rendered.
C1_FailureCaughtAtPageBoundary ==
    /\ pc # "crashed"
    /\ (pc = "done" /\ failures > 0) =>
          /\ errors = 1
          /\ page = "main" => "footer" \in shown

\* C2: no retry and no partial result: no query is sent twice in a page load,
\* and an error message is never on the page together with a metric tile, a
\* chart or a table.
C2_NoRetryNoPartialResult ==
    /\ \A f \in Functions : attempts[f] <= 1
    /\ "error" \in shown =>
          shown \cap (MetricTiles \cup TrendWidgets \cup WorkspaceWidgets) = {}

\* the six calendar months that end k months before the current month
TrailingSixMonths(k) ==
    { ToCharYYYYMM(DateToTimestamp(DateAddMonth(0 - j, Today))) : j \in k..(k + 5) }

MonthsOf(df) == { df[i].MONTH : i \in 1..Len(df) }

\* C3: get_monthly_trends returns at most 6 rows, in strictly ascending month
\* order, all of them within the trailing six calendar months (whether those
\* are counted up to the current month or up to the month before it).
C3_MonthlyTrendsTrailingSix ==
    pc # "query" =>
      /\ Len(monthly_data) <= 6
      /\ \A i \in 1..(Len(monthly_data) - 1) : monthly_data[i].MONTH < monthly_data[i + 1].MONTH
      /\ \/ MonthsOf(monthly_data) \subseteq TrailingSixMonths(0)
         \/ MonthsOf(monthly_data) \subseteq TrailingSixMonths(1)

\* C4: get_eval_runs(start, end) is the number of records created on a day of
\* start..end, whatever the time of day.
C4_CountRunsClosedInterval ==
    pc \in {"q_runs", "q_active", "q_done"} =>
      eval_runs = Cardinality({ r \in records :
                      start_date <= DateOf(r.created_at) /\ DateOf(r.created_at) <= end_date })

\* the records the window's WHERE clause selects, with a duration
TimedInWindow ==
    { r \in records : /\ r.created_at >= DateToTimestamp(start_date)
                      /\ r.created_at <= DateToTimestamp(end_date)
                      /\ r.duration_seconds # {} }

Abs(x) == IF x < 0 THEN 0 - x ELSE x

C6_EmptyTableLoadsCleanly ==
    (records = {} /\ failures = 0) =>
      /\ pc \notin {"except", "crashed"}
      /\ errors = 0
      /\ "error" \notin shown
      /\ eval_runs = 0 /\ active_workspaces = 0 /\ avg_duration = 0
      /\ monthly_data = <<>> /\ workspace_data = <<>>
      /\ lastCall.fn \in {"get_eval_runs", "get_active_workspaces", "get_avg_duration"}
            => lastCall.from.value = {0}
      /\ lastCall.fn \in {"get_monthly_trends", "get_workspace_metrics"}
            => lastCall.from.value = {<<>>}
      /\ (pc = "done" /\ page = "main") =>
            /\ utilization = <<0, 1>>
            /\ shown = {"title", "footer"} \cup MetricTiles
      /\ (pc = "done" /\ page = "workspace") => shown = {"title"}

\* C6 witness: a main page load for the six month period over the empty
\* table has run to its end
C6_Witness ==
    /\ records = {}
    /\ failures = 0
    /\ page = "main"
    /\ pc = "done"
    /\ date_range = "Last 6 months"
    /\ attempts["get_avg_duration"] = 1
    /\ "metric_utilization" \in shown

\* what the query of a memoised function returns for its arguments on a day
QueryResults(fn, args, today) ==
    CASE fn = "get_eval_runs" -> {get_eval_runs(records, args[1], args[2])}
      [] fn = "get_active_workspaces" -> {get_active_workspaces(records, args[1], args[2])}
      [] fn = "get_avg_duration" -> {get_avg_duration(records, args[1], args[2])}
      [] fn = "get_monthly_trends" -> {get_monthly_trends(records, today)}
      [] fn = "get_workspace_metrics" -> get_workspace_metrics(records, today)

RecentWorkspaces ==
    { r.workspace_id : r \in { x \in records :
          x.created_at >= DateToTimestamp(DateAddMonth(0 - 3, Today)) } }

RunsSince3Months(w) ==
    Cardinality({ x \in records : /\ x.workspace_id = w
                                  /\ x.created_at >= DateToTimestamp(DateAddMonth(0 - 3, Today)) })

C10_UtilizationPerDayOfWindow ==
    (page = "main" /\ "metric_utilization" \in shown) =>
      IF active_workspaces > 0
      THEN utilization[1] * (active_workspaces * (end_date - start_date))
              = eval_runs * utilization[2]
      ELSE utilization[1] = 0

====
